---- MODULE Spec2Model ----
(***************************************************************************)
(* A model of gitconductor: the tree of GitlabGroup / GitlabProject        *)
(* objects built from a remote hierarchy, the path properties, the         *)
(* recursive command dispatch, the pickled state file and the selection of *)
(* the sub-group of the working directory.                                 *)
(*                                                                         *)
(* A string is a sequence of one-character strings; a filesystem path is   *)
(* the sequence of its segments below "/", each segment a string.          *)
(***************************************************************************)
EXTENDS Integers, Sequences, FiniteSets, TLC

(***************************************************************************)
(* Bounds of the model.                                                    *)
(***************************************************************************)
\* the remote hierarchies that are built have at most this many nodes below
\* their top group
MaxNodes == 4
\* the remote hierarchies that are cloned and worked on have at most this many
\* sub-groups below their top group, and this many projects
MaxGroups == 2
MaxProjects == 2
\* the hierarchies whose directories are renamed, deleted and overwritten
\* between the invocations have at most this many nodes below their top group
MaxLoadNodes == 3
\* the remote hierarchies with a project named after its group have at most
\* this many nodes below their top group
MaxPrefixNodes == 3
\* the hierarchies whose working trees have known contents have at most this
\* many nodes below their top group
MaxGitNodes == 3
\* the hierarchies whose files are staged and committed have at most this many
\* nodes below their top group
MaxStageNodes == 2
\* the hierarchies that are visualised have at most this many nodes below
\* their top group
MaxVizNodes == 2

(***************************************************************************)
(* Strings and paths.                                                      *)
(***************************************************************************)
SEP == "/"
DASH == "-"

\* the code points of the characters, as Python's string comparison orders them
CharOrd(c) == CASE c = "-" -> 45 [] c = "/" -> 47 [] c = "a" -> 97 [] c = "b" -> 98
                [] c = "g" -> 103 [] c = "r" -> 114 [] c = "w" -> 119 [] c = "x" -> 120
                [] c = "y" -> 121 [] c = "z" -> 122 [] OTHER -> 0

RECURSIVE StrLess(_, _)
\* s < t for Python strings
StrLess(s, t) ==
    IF s = <<>> THEN t # <<>>
    ELSE IF t = <<>> THEN FALSE
    ELSE IF Head(s) = Head(t) THEN StrLess(Tail(s), Tail(t))
    ELSE CharOrd(Head(s)) < CharOrd(Head(t))

RECURSIVE Split(_, _)
\* pathlib's parsing of a relative string: the segments between "/"
Split(s, cur) ==
    IF s = <<>> THEN (IF cur = <<>> THEN <<>> ELSE <<cur>>)
    ELSE IF Head(s) = SEP
         THEN (IF cur = <<>> THEN <<>> ELSE <<cur>>) \o Split(Tail(s), <<>>)
         ELSE Split(Tail(s), Append(cur, Head(s)))

\* pathlib.Path(p) / s   for a relative string s
PathJoin(p, s) == p \o Split(s, <<>>)

RECURSIVE PathStr(_)
\* str(p) of a relative path: its segments joined with "/"
PathStr(p) ==
    IF p = <<>> THEN <<>>
    ELSE IF Len(p) = 1 THEN p[1]
    ELSE p[1] \o <<SEP>> \o PathStr(Tail(p))

\* str.replace(os.sep, "-")
ReplaceSep(s) == [i \in 1..Len(s) |-> IF s[i] = SEP THEN DASH ELSE s[i]]

\* p.parent (the parent of "/" is "/")
Parent(p) == IF p = <<>> THEN <<>> ELSE SubSeq(p, 1, Len(p) - 1)

\* p.name
PathName(p) == IF p = <<>> THEN <<>> ELSE p[Len(p)]

IsPrefix(r, p) == Len(r) <= Len(p) /\ SubSeq(p, 1, Len(r)) = r

\* p.relative_to(r), for p below r
RelativeTo(p, r) == SubSeq(p, Len(r) + 1, Len(p))

\* p.parents: the proper ancestors of p, nearest first
Parents(p) == [i \in 1..Len(p) |-> SubSeq(p, 1, Len(p) - i)]

RECURSIVE SortedSeq(_)
\* the slugs of the set S in ascending order
SortedSeq(S) ==
    IF S = {} THEN <<>>
    ELSE LET m == CHOOSE x \in S : \A y \in S \ {x} : StrLess(x, y)
         IN <<m>> \o SortedSeq(S \ {m})

RECURSIVE Insert(_, _)
\* seq, which is sorted, with x put after its elements that are not above x
Insert(x, seq) ==
    IF seq = <<>> THEN <<x>>
    ELSE IF StrLess(x, Head(seq)) THEN <<x>> \o seq
    ELSE <<Head(seq)>> \o Insert(x, Tail(seq))

\* sorted without the sorting
sorted_unsorted(seq) == seq

RECURSIVE sorted(_)
\* sorted(seq, key=lambda x: x.path) for a sequence of project slugs
sorted(seq) ==
    IF seq = <<>> THEN <<>>
    ELSE Insert(seq[Len(seq)], sorted(SubSeq(seq, 1, Len(seq) - 1)))

(***************************************************************************)
(* The remote hierarchy: a group is [path, projects, subgroups], path its  *)
(* slug, projects the set of slugs of its projects, subgroups the sequence *)
(* of its sub-groups in the order the remote lists them.                   *)
(***************************************************************************)
\* the slugs of the remote groups and projects
Slugs == {<<"a">>, <<"b">>, <<"a", "-", "b">>}
TopSlug == <<"g">>

RECURSIVE RemoteSize(_), ForestSize(_)
\* the number of groups and projects of a remote group
RemoteSize(g) == 1 + Cardinality(g.projects) + ForestSize(g.subgroups)
ForestSize(f) == IF f = <<>> THEN 0 ELSE RemoteSize(Head(f)) + ForestSize(Tail(f))

RECURSIVE RemoteProjects(_), ForestProjects(_)
\* the number of projects of a remote group
RemoteProjects(g) == Cardinality(g.projects) + ForestProjects(g.subgroups)
ForestProjects(f) == IF f = <<>> THEN 0 ELSE RemoteProjects(Head(f)) + ForestProjects(Tail(f))

RECURSIVE RemoteGroups(_, _, _), RemoteForests(_, _, _)
\* the groups of at most n nodes whose slug is in names, those of the nodes
\* below it in slugs; the slugs of the projects and sub-groups of one group
\* are distinct
RemoteGroups(n, names, slugs) ==
    IF n < 1 THEN {}
    ELSE UNION { UNION { { [path |-> s, projects |-> ps, subgroups |-> f] :
                             f \in RemoteForests(n - 1 - Cardinality(ps), slugs \ ps, slugs) } :
                         ps \in { q \in SUBSET slugs : Cardinality(q) <= n - 1 } } :
                 s \in names }
\* the sequences of sub-groups, of distinct slugs in names
RemoteForests(n, names, slugs) ==
    IF n < 1 THEN { <<>> }
    ELSE { <<>> } \cup
         UNION { { <<g>> \o f : f \in RemoteForests(n - RemoteSize(g), names \ {g.path}, slugs) } :
                 g \in RemoteGroups(n, names, slugs) }

\* the hierarchies that are built
Remotes == RemoteGroups(MaxNodes + 1, {TopSlug}, Slugs)
\* the hierarchies that are cloned and worked on
TreeSlugs == {<<"a">>, <<"b">>}
TreeRemotes ==
    {g \in RemoteGroups(MaxGroups + MaxProjects + 1, {TopSlug}, TreeSlugs) :
        /\ RemoteProjects(g) <= MaxProjects
        /\ RemoteSize(g) - RemoteProjects(g) - 1 <= MaxGroups}

\* the orders in which the server lists the projects of a group
Orders == {"asc", "desc", "rot"}
\* group.projects.list(all=True) for the projects S, listed in the order ord
Listing(S, ord) ==
    LET asc == SortedSeq(S)
    IN IF ord = "asc" \/ asc = <<>> THEN asc
       ELSE IF ord = "desc" THEN [i \in 1..Len(asc) |-> asc[Len(asc) + 1 - i]]
       ELSE Tail(asc) \o <<Head(asc)>>

RECURSIVE GroupNames(_, _), ForestNames(_, _)
\* the full_path of the remote group rg, which is fullname, and those of the
\* groups below it
GroupNames(rg, fullname) == {fullname} \cup ForestNames(rg.subgroups, fullname)
ForestNames(f, fullname) ==
    IF f = <<>> THEN {}
    ELSE GroupNames(Head(f), fullname \o <<SEP>> \o Head(f).path) \cup ForestNames(Tail(f), fullname)

\* the server during one construction: the order of its listings and the
\* groups for which server.groups.get raises (no such group, no access, no
\* connection)
Servers(rg) ==
    {[ord |-> o, down |-> d] :
        o \in Orders, d \in { {} } \cup { {n} : n \in GroupNames(rg, rg.path) }}

\* the hierarchies in which a slug starts with the name of the top group
PrefixSlugs == {<<"a">>, <<"g", "-", "a">>}
PrefixRemotes == RemoteGroups(MaxPrefixNodes + 1, {TopSlug}, PrefixSlugs)

\* the hierarchies that are cloned, changed on disk and loaded
LoadRemotes == {g \in TreeRemotes : RemoteSize(g) <= MaxLoadNodes + 1}

\* the directories a hierarchy is cloned into
Roots == { << <<"w">>, <<"r">> >> }
\* the directory a cloned hierarchy is moved to
Elsewhere == << <<"w">>, <<"m">> >>

(***************************************************************************)
(* The objects: GitlabGroup and GitlabProject.                             *)
(***************************************************************************)
\* the name ".gitconductor.pkl"
GROUP_FNAME == <<".", "g", "i", "t", "c", "o", "n", "d", "u", "c", "t", "o", "r", ".", "p", "k", "l">>
None == "None"
\* None where a path is expected (no object is bound, no argument is given)
NoPath == <<>>

\* GitlabGroup.path
GroupPath(g) ==
    IF g.flat THEN PathJoin(g.root, ReplaceSep(g.fullname))
    ELSE PathJoin(g.root, g.fullname)

\* GitlabProject.path
ProjectPath(p) == PathJoin(p.root, p.fullname)

NodePath(n) == IF n.kind = "group" THEN GroupPath(n) ELSE ProjectPath(n)

\* ProjectFullname with the flat name not prefixed by the name of the group
ProjectFullname_noprefix(g, ppath) ==
    LET gp == GroupPath(g)
        full == IF g.flat THEN Parent(gp) \o <<ppath>> ELSE gp \o <<ppath>>
    IN PathStr(RelativeTo(full, g.root))

\* the fullname that GitlabGroup.build gives the project of slug ppath
ProjectFullname(g, ppath) ==
    LET gp == GroupPath(g)
        full == IF g.flat
                THEN Parent(gp) \o <<PathName(gp) \o <<DASH>> \o ppath>>
                ELSE gp \o <<ppath>>
    IN PathStr(RelativeTo(full, g.root))

\* the GitlabProject that GitlabGroup.build makes of the remote project ppath
NewProject(g, ppath) ==
    [kind |-> "project", project |-> ppath, fullname |-> ProjectFullname(g, ppath),
     root |-> g.root, flat |-> g.flat, name |-> <<>>, git |-> NoPath, rows |-> <<>>]

RECURSIVE build(_, _, _, _, _, _, _)
\* build leaving out the sub-groups whose construction raised
build_skipfailed(rg, name, fullname, root, flat, subgroup, srv) ==
    LET self == [kind |-> "group", name |-> name, fullname |-> fullname,
                 root |-> root, flat |-> flat, subgroup |-> subgroup]
        listed == sorted(Listing(rg.projects, srv.ord))
        subs == [i \in 1..Len(rg.subgroups) |->
                   LET full_path == fullname \o <<SEP>> \o rg.subgroups[i].path
                   IN build(rg.subgroups[i], PathName(Split(full_path, <<>>)),
                            full_path, root, flat, TRUE, srv)]
        IsBuilt(g) == g # [kind |-> "none"]
    IN IF fullname \in srv.down THEN [kind |-> "none"]
       ELSE [kind |-> "group", name |-> name, fullname |-> fullname,
             root |-> root, flat |-> flat, subgroup |-> subgroup,
             projects |-> [i \in 1..Len(listed) |-> NewProject(self, listed[i])],
             subgroups |-> SelectSeq(subs, IsBuilt)]

\* GitlabGroup(name=, fullname=, root=, flat=, subgroup=) on the server srv,
\* rg being the remote group of that fullname: model_post_init and build.
\* The result is [kind |-> "none"] when the constructor raises: when
\* server.groups.get raises, or the constructor of a sub-group does
build(rg, name, fullname, root, flat, subgroup, srv) ==
    LET self == [kind |-> "group", name |-> name, fullname |-> fullname,
                 root |-> root, flat |-> flat, subgroup |-> subgroup]
        listed == sorted(Listing(rg.projects, srv.ord))
        subs == [i \in 1..Len(rg.subgroups) |->
                   LET full_path == fullname \o <<SEP>> \o rg.subgroups[i].path
                   IN build(rg.subgroups[i], PathName(Split(full_path, <<>>)),
                            full_path, root, flat, TRUE, srv)]
    IN IF fullname \in srv.down THEN [kind |-> "none"]
       ELSE IF \E i \in DOMAIN subs : subs[i] = [kind |-> "none"] THEN [kind |-> "none"]
       ELSE [kind |-> "group", name |-> name, fullname |-> fullname,
             root |-> root, flat |-> flat, subgroup |-> subgroup,
             projects |-> [i \in 1..Len(listed) |-> NewProject(self, listed[i])],
             subgroups |-> subs]

\* the group object that `clone name directory [--flat]` constructs
TopGroup(rg, root, flat, srv) == build(rg, rg.path, rg.path, root, flat, FALSE, srv)

RECURSIVE Projects(_), ProjectsOfAll(_), Groups(_), GroupsOfAll(_)
\* the projects of a group and of its sub-groups, in the order of the walk:
\* the set of them is what GitlabGroup.count counts
Projects(g) ==
    IF g.kind = "project" THEN <<g>> ELSE g.projects \o ProjectsOfAll(g.subgroups)
ProjectsOfAll(gs) == IF gs = <<>> THEN <<>> ELSE Projects(Head(gs)) \o ProjectsOfAll(Tail(gs))
\* the group and its sub-groups, recursively
Groups(g) == IF g.kind = "project" THEN <<>> ELSE <<g>> \o GroupsOfAll(g.subgroups)
GroupsOfAll(gs) == IF gs = <<>> THEN <<>> ELSE Groups(Head(gs)) \o GroupsOfAll(Tail(gs))

\* every node of a tree, as a sequence
Nodes(g) == Groups(g) \o Projects(g)

RECURSIVE count(_), countAll(_)
\* GitlabGroup.count
count(g) == Len(g.projects) + countAll(g.subgroups)
countAll(gs) == IF gs = <<>> THEN 0 ELSE count(Head(gs)) + countAll(Tail(gs))

NoTree == [kind |-> "none"]
\* the contents of a state file that is no pickle of an object
Garbage == [kind |-> "garbage"]

(***************************************************************************)
(* The filesystem: files is the set of state files, [dir, tree] being the  *)
(* file GROUP_FNAME of directory dir that holds the pickled object tree;   *)
(* repos is the set of directories that hold a working tree.               *)
(***************************************************************************)
\* the directories that exist before anything is cloned
BaseDirs == UNION { {SubSeq(r, 1, k) : k \in 0..Len(r)} : r \in Roots \cup {Elsewhere} }

DirExists(d, repos) == d \in BaseDirs \/ \E r \in repos : IsPrefix(d, r)

\* cfg.is_file()
IsFile(cfg, files) == \E f \in files : f.dir \o <<GROUP_FNAME>> = cfg

\* pickle.load(open(cfg))
ReadFile(cfg, files) == (CHOOSE f \in files : f.dir \o <<GROUP_FNAME>> = cfg).tree

\* toplevel_dir without the case of the nested layout
toplevel_dir_root(g) == g.root

\* GitlabInstance.toplevel_dir
toplevel_dir(g) ==
    IF g.flat THEN g.root
    ELSE g.root \o <<RelativeTo(GroupPath(g), g.root)[1]>>

\* GitlabGroup.dump, on the run state st: open(..., "wb") and pickle.dump(self)
dump(g, st) ==
    LET dir == toplevel_dir(g)
    IN IF ~DirExists(dir, st.repos) /\ ~\E f \in st.files : f.dir = dir
       THEN [st EXCEPT !.err = "FileNotFoundError:dump"]
       ELSE [st EXCEPT !.files = {f \in st.files : f.dir # dir} \cup {[dir |-> dir, tree |-> g]},
                       !.log = Append(st.log, [ev |-> "write", path |-> dir, node |-> g.fullname])]

(***************************************************************************)
(* The commands of a project.                                              *)
(***************************************************************************)
Commands == {"clone", "branch", "checkout", "add", "commit", "status", "push"}
\* a name that is an attribute of GitlabProject and not a command
OtherAttrs == {"path"}
\* a name that is no attribute of GitlabProject
Unknown == {"foo"}
\* hasattr(project, command)
hasattr(command) == command \in Commands \cup OtherAttrs

(***************************************************************************)
(* The contents of a working tree, as git keeps them: heads maps a branch  *)
(* to the number of commits made on it since the clone, active is the      *)
(* branch that is checked out, tracked, untracked, modified and staged are *)
(* sets of file names relative to the working tree (staged: index.diff     *)
(* ("HEAD"); modified: index.diff(None); untracked: untracked_files).      *)
(* st.work holds the contents of the working trees they are known of; the  *)
(* contents of a working tree that a clone fetched are the server's, what  *)
(* a command does on them is left to the backend (st.nfail).               *)
(***************************************************************************)
Known(path, st) == path \in DOMAIN st.work

\* create_head that also checks the new branch out
create_head_checkout(w, name) ==
    [w EXCEPT !.heads = [n \in DOMAIN w.heads \cup {name} |->
                            IF n = name THEN w.heads[w.active] ELSE w.heads[n]],
              !.active = name]

\* git.Repo.create_head(name): the new branch points to the commit of HEAD
create_head(w, name) ==
    [w EXCEPT !.heads = [n \in DOMAIN w.heads \cup {name} |->
                            IF n = name THEN w.heads[w.active] ELSE w.heads[n]]]

\* create_head raises for a branch that exists and points elsewhere
create_head_raises(w, name) == name \in DOMAIN w.heads /\ w.heads[name] # w.heads[w.active]

\* checkout that deletes the branch that was checked out
checkout_move(w, name) ==
    [w EXCEPT !.heads = [n \in (DOMAIN w.heads \ {w.active}) \cup {name} |-> w.heads[n]], !.active = name]

\* git.Repo.heads[name].checkout()
checkout(w, name) == [w EXCEPT !.active = name]

\* git.Repo.heads[name] raises for a branch that does not exist
checkout_raises(w, name) == name \notin DOMAIN w.heads

\* the fnames that lie in the project, whatever their status
AddFiles_unchecked(p, st) ==
    LET path == ProjectPath(p)
    IN {SubSeq(f, Len(path) + 1, Len(f)) : f \in {f \in st.fnames : IsPrefix(path, f)}}

\* the files that GitlabProject.add passes to index.add: the fnames that lie
\* in the project and are untracked or modified
AddFiles(p, st) ==
    LET path == ProjectPath(p)
        w == st.work[path]
    IN {rel \in {SubSeq(f, Len(path) + 1, Len(f)) : f \in {f \in st.fnames : IsPrefix(path, f)}} :
           rel \in w.untracked \cup w.modified}

\* git.Repo.index.add(rels)
index_add(w, rels) ==
    [w EXCEPT !.staged = @ \cup rels, !.untracked = @ \ rels, !.modified = @ \ rels]

\* commit without the test of what is staged
commit_always(w) ==
    [w EXCEPT !.heads[w.active] = @ + 1, !.tracked = @ \cup w.staged, !.staged = {}]

\* GitlabProject.commit: index.commit(message) when something is staged
commit(w) ==
    IF w.staged = {} THEN w
    ELSE [w EXCEPT !.heads[w.active] = @ + 1, !.tracked = @ \cup w.staged, !.staged = {}]

\* the contents of the working tree of project p after the command
GitEffect(p, command, st) ==
    LET w == st.work[ProjectPath(p)]
    IN CASE command = "branch" -> create_head(w, st.name)
         [] command = "checkout" -> checkout(w, st.name)
         [] command = "add" -> index_add(w, AddFiles(p, st))
         [] command = "commit" -> commit(w)
         [] OTHER -> w

\* does getattr(project, command)() raise on project p?  st.nfail = 1 is the
\* failure of the backend (network, permissions, an existing branch) on this
\* call; add reads self.git only for a file name that lies in the project
OpRaises(p, command, st) ==
    \/ st.nfail = 1
    \/ command = "clone" /\ \E r \in st.repos : IsPrefix(ProjectPath(p), r)
    \/ command \in {"branch", "checkout"} /\ ProjectPath(p) \notin st.repos
    \/ command \in {"commit", "status", "push"} /\ p.git = NoPath
    \/ command = "add" /\ p.git = NoPath /\ \E f \in st.fnames : IsPrefix(ProjectPath(p), f)
    \/ /\ Known(ProjectPath(p), st)
       /\ \/ command = "branch" /\ create_head_raises(st.work[ProjectPath(p)], st.name)
          \/ command = "checkout" /\ checkout_raises(st.work[ProjectPath(p)], st.name)

\* the rows that a successful command appends: one for clone, branch and
\* checkout (with the name given), one for every file that add stages, that
\* commit commits and that status lists
OpRows(p, command, st) ==
    LET row == [cmd |-> command, tree |-> p.fullname,
                name |-> IF command \in {"branch", "checkout"} THEN st.name ELSE None]
        w == st.work[ProjectPath(p)]
        n == IF command \in {"clone", "branch", "checkout"} THEN 1
             ELSE IF ~Known(ProjectPath(p), st) THEN 0
             ELSE IF command = "add" THEN Cardinality(AddFiles(p, st))
             ELSE IF command = "commit" THEN Cardinality(w.staged)
             ELSE IF command = "status"
                  THEN Cardinality(w.staged) + Cardinality(w.modified) + Cardinality(w.untracked)
             ELSE 0
    IN [k \in 1..n |-> row]

\* getattr(project, command)(**kwargs) for a command of GitlabProject
ProjectOp(p, command, st) ==
    LET path == ProjectPath(p)
    IN IF OpRaises(p, command, st)
       THEN [node |-> p,
             st |-> [st EXCEPT !.err = "OpFailed", !.nfail = 0,
                               !.log = Append(st.log, [ev |-> "fail", path |-> path, node |-> p.fullname])]]
       ELSE [node |-> [p EXCEPT !.git = IF command \in {"clone", "branch", "checkout"} THEN path ELSE p.git,
                                !.name = IF command = "clone" THEN PathName(path) ELSE p.name,
                                !.rows = OpRows(p, command, st)],
             st |-> [st EXCEPT !.repos = IF command = "clone" THEN st.repos \cup {path} ELSE st.repos,
                               !.work = IF Known(path, st)
                                        THEN [st.work EXCEPT ![path] = GitEffect(p, command, st)]
                                        ELSE st.work,
                               !.nfail = IF st.nfail > 1 THEN st.nfail - 1 ELSE 0,
                               !.log = Append(st.log, [ev |-> "op", path |-> path, node |-> p.fullname])]]

\* `for row in project.rows: output.TABLE.add_row(*row)` after the command
\* returned: the rows of the table are events of the log
AddRows(p, st) ==
    IF st.err # "none" THEN st
    ELSE [st EXCEPT !.log = st.log \o [k \in 1..Len(p.rows) |->
                                          [ev |-> "row", path |-> ProjectPath(p), node |-> p.fullname]]]

\* the element of a set of one element: in Only({F(r) : r \in {e}}) the value
\* r of e is computed once
Only(S) == CHOOSE x \in S : TRUE

RECURSIVE recursive_command(_, _, _), RunProjects(_, _, _, _), RunSubgroups(_, _, _, _)
\* the loop `for project in self.projects` from its i-th project on
RunProjects(g, i, command, st) ==
    IF i > Len(g.projects) \/ st.err # "none" THEN [node |-> g, st |-> st]
    ELSE LET p == [g.projects[i] EXCEPT !.rows = <<>>]
         IN IF ~hasattr(command)
            THEN [node |-> [g EXCEPT !.projects[i] = p], st |-> [st EXCEPT !.err = "NotRecognised"]]
            ELSE IF command \notin Commands
            THEN [node |-> [g EXCEPT !.projects[i] = p], st |-> [st EXCEPT !.err = "TypeError"]]
            ELSE Only({RunProjects([g EXCEPT !.projects[i] = r.node], i + 1, command, AddRows(r.node, r.st)) :
                          r \in {ProjectOp(p, command, st)}})
\* the loop `for subgroup in self.subgroups` from its i-th sub-group on
RunSubgroups(g, i, command, st) ==
    IF i > Len(g.subgroups) \/ st.err # "none" THEN [node |-> g, st |-> st]
    ELSE Only({RunSubgroups([g EXCEPT !.subgroups[i] = r.node], i + 1, command, r.st) :
                  r \in {recursive_command(g.subgroups[i], command, st)}})
\* recursive_command walking the sub-groups before the projects of the group
recursive_command_subgroupsfirst(g, command, st) ==
    Only({IF r2.st.err # "none" THEN r2 ELSE [node |-> r2.node, st |-> dump(r2.node, r2.st)] :
             r2 \in UNION {{RunProjects(r1.node, 1, command, r1.st)} : r1 \in {RunSubgroups(g, 1, command, st)}}})

\* GitlabGroup.recursive_command: the object afterwards and the run state
recursive_command(g, command, st) ==
    Only({IF r2.st.err # "none" THEN r2 ELSE [node |-> r2.node, st |-> dump(r2.node, r2.st)] :
             r2 \in UNION {{RunSubgroups(r1.node, 1, command, r1.st)} : r1 \in {RunProjects(g, 1, command, st)}}})

(***************************************************************************)
(* Loading the state file and selecting the sub-group of the directory.    *)
(***************************************************************************)
RECURSIVE rebuild(_, _)
\* GitlabGroup.rebuild(cfg), newroot being cfg.resolve().parent.parent: the
\* object with its roots replaced and its projects bound to git.Repo(path)
rebuild(g, newroot) ==
    [g EXCEPT !.root = newroot,
              !.projects = [i \in 1..Len(g.projects) |->
                              LET p == [g.projects[i] EXCEPT !.root = newroot]
                              IN [p EXCEPT !.git = ProjectPath(p)]],
              !.subgroups = [i \in 1..Len(g.subgroups) |-> rebuild(g.subgroups[i], newroot)]]

\* git.Repo(project.path) raises for some project of the rebuilt object
RebuildRaises(g, repos) == \E i \in DOMAIN Projects(g) : ProjectPath(Projects(g)[i]) \notin repos

RECURSIVE find_subgroup(_, _)
\* misc.find_subgroup
find_subgroup(group, pwd) ==
    IF GroupPath(group) = pwd THEN group
    ELSE IF \E i \in DOMAIN group.projects : ProjectPath(group.projects[i]) = pwd
    THEN group.projects[CHOOSE i \in DOMAIN group.projects :
                            /\ ProjectPath(group.projects[i]) = pwd
                            /\ \A j \in 1..(i - 1) : ProjectPath(group.projects[j]) # pwd]
    ELSE IF group.subgroups = <<>> THEN group
    ELSE LET grp == group.subgroups[1]
         IN IF GroupPath(grp) = pwd THEN grp ELSE find_subgroup(grp, pwd)

\* the state file that load_cfg(state) opens from the directory pwd: NoPath when
\* there is none
FindCfg(state, pwd, files) ==
    IF state = NoPath
    THEN IF IsFile(pwd \o <<GROUP_FNAME>>, files) THEN pwd \o <<GROUP_FNAME>>
         ELSE LET ps == Parents(pwd)
                  found == {i \in DOMAIN ps : IsFile(ps[i] \o <<GROUP_FNAME>>, files)}
              IN IF found = {} THEN NoPath
                 ELSE ps[CHOOSE i \in found : \A j \in found : i <= j] \o <<GROUP_FNAME>>
    ELSE IF IsFile(state, files) THEN state ELSE NoPath

\* load_cfg reporting whatever goes wrong once the file is found as a missing
\* state file
load_cfg_catchall(state, pwd, files, repos) ==
    LET path == FindCfg(state, pwd, files)
    IN IF path = NoPath
       THEN [err |-> IF state = NoPath THEN "FileNotFoundError:walk" ELSE "FileNotFoundError:path",
             group |-> NoTree, scope |-> NoTree]
       ELSE IF ReadFile(path, files) = Garbage
       THEN [err |-> "FileNotFoundError:path", group |-> NoTree, scope |-> NoTree]
       ELSE LET group == rebuild(ReadFile(path, files), Parent(Parent(path)))
            IN IF RebuildRaises(group, repos)
               THEN [err |-> "FileNotFoundError:path", group |-> NoTree, scope |-> NoTree]
               ELSE [err |-> "none", group |-> group, scope |-> find_subgroup(group, pwd)]

\* load_cfg raising the same error for a missing --state file as for a
\* missing state file of the walk
load_cfg_oneerror(state, pwd, files, repos) ==
    LET path == FindCfg(state, pwd, files)
    IN IF path = NoPath
       THEN [err |-> "FileNotFoundError:walk", group |-> NoTree, scope |-> NoTree]
       ELSE IF ReadFile(path, files) = Garbage
       THEN [err |-> "UnpicklingError", group |-> NoTree, scope |-> NoTree]
       ELSE LET group == rebuild(ReadFile(path, files), Parent(Parent(path)))
            IN IF RebuildRaises(group, repos)
               THEN [err |-> "NoSuchPathError", group |-> NoTree, scope |-> NoTree]
               ELSE [err |-> "none", group |-> group, scope |-> find_subgroup(group, pwd)]

\* misc.load_cfg(state) from the directory pwd: [err, group, scope]
load_cfg(state, pwd, files, repos) ==
    LET path == FindCfg(state, pwd, files)
    IN IF path = NoPath
       THEN [err |-> IF state = NoPath THEN "FileNotFoundError:walk" ELSE "FileNotFoundError:path",
             group |-> NoTree, scope |-> NoTree]
       ELSE IF ReadFile(path, files) = Garbage
       THEN [err |-> "UnpicklingError", group |-> NoTree, scope |-> NoTree]
       ELSE LET group == rebuild(ReadFile(path, files), Parent(Parent(path)))
            IN IF RebuildRaises(group, repos)
               THEN [err |-> "NoSuchPathError", group |-> NoTree, scope |-> NoTree]
               ELSE [err |-> "none", group |-> group, scope |-> find_subgroup(group, pwd)]

(***************************************************************************)
(* State.                                                                  *)
(***************************************************************************)
VARIABLES
    remote,     \* the hierarchy on the server
    root,       \* the directory that the hierarchy is cloned into
    files,      \* the state files
    repos,      \* the directories that hold a working tree
    phase,      \* "idle": no invocation is in progress; "done": one has ended
    cmd,        \* the command of the invocation
    args,       \* the arguments of the command: [fnames, name]
    pwd,        \* its working directory
    stateArg,   \* its --state argument, NoPath when it has none
    cfg,        \* the state file that it opened, NoPath when it opened none
    built,      \* the object that it constructed or loaded
    scope,      \* the object that it ran the command on
    tree,       \* that object after the command
    log,        \* the project operations and the writes of the state file, in order
    err,        \* the exception that ended it, or "none"
    work        \* the contents of the working trees that are known

vars == <<remote, root, files, repos, phase, cmd, args, pwd, stateArg, cfg, built, scope, tree, log, err, work>>

\* the run state at the start of a dispatch: the filesystem, the operation
\* that the backend makes fail, the fnames argument of add and the name
\* argument of branch and checkout
StartState(nfail, fnames) ==
    [files |-> files, repos |-> repos, work |-> work, log |-> <<>>, err |-> "none",
     nfail |-> nfail, fnames |-> fnames, name |-> None]

\* no working tree has known contents
NoWork == << >>

\* a command without arguments
NoArgs == [fnames |-> {}, name |-> None]

Idle ==
    /\ phase = "idle"
    /\ cmd = None
    /\ args = NoArgs
    /\ pwd = <<>>
    /\ stateArg = NoPath
    /\ cfg = NoPath
    /\ built = NoTree
    /\ scope = NoTree
    /\ tree = NoTree
    /\ log = <<>>
    /\ err = "none"

Init ==
    /\ remote \in TreeRemotes
    /\ root \in Roots
    /\ files = {}
    /\ repos = {}
    /\ work = NoWork
    /\ Idle

\* the effect of group.recursive_command(command, fnames=fnames, name=name)
\* with the run nfail
DispatchArgs(group, command, nfail, fnames, name) ==
    \E r \in {recursive_command(group, command, [StartState(nfail, fnames) EXCEPT !.name = name])} :
       /\ tree' = r.node
       /\ files' = r.st.files
       /\ repos' = r.st.repos
       /\ work' = r.st.work
       /\ log' = r.st.log
       /\ err' = r.st.err

\* the effect of group.recursive_command(command, fnames=fnames) with the run nfail
DispatchWith(group, command, nfail, fnames) == DispatchArgs(group, command, nfail, fnames, None)

\* the effect of group.recursive_command(command), add being given no file name
Dispatch(group, command, nfail) == DispatchWith(group, command, nfail, {})

\* cli.clone: `clone <name> <root> [--flat]` on the server srv, the nfail-th
\* clone failing
Clone(flat, nfail, srv) ==
    /\ phase = "idle"
    /\ files = {}
    /\ LET group == TopGroup(remote, root, flat, srv)
       IN /\ built' = group
          /\ scope' = group
          /\ IF group = NoTree
             THEN /\ err' = "GitlabGetError"
                  /\ tree' = NoTree
                  /\ log' = <<>>
                  /\ UNCHANGED <<files, repos, work>>
             ELSE Dispatch(group, "clone", nfail)
    /\ cmd' = "clone"
    /\ args' = NoArgs
    /\ pwd' = root
    /\ stateArg' = NoPath
    /\ cfg' = NoPath
    /\ phase' = "done"
    /\ UNCHANGED <<remote, root>>

\* cli.branch, checkout, add, commit, status, push, and a call of
\* load_cfg(cfg).recursive_command(command, **kwargs), from the directory d
InvokeWith(command, d, state, nfail, fnames, name) ==
    /\ phase = "idle"
    /\ cfg' = FindCfg(state, d, files)
    /\ \E l \in {load_cfg(state, d, files, repos)} :
          /\ built' = l.group
          /\ scope' = l.scope
          /\ IF l.err # "none"
             THEN /\ err' = l.err
                  /\ tree' = NoTree
                  /\ log' = <<>>
                  /\ UNCHANGED <<files, repos, work>>
             ELSE IF l.scope.kind = "project"
             THEN /\ err' = "AttributeError"
                  /\ tree' = l.scope
                  /\ log' = <<>>
                  /\ UNCHANGED <<files, repos, work>>
             ELSE DispatchArgs(l.scope, command, nfail, fnames, name)
    /\ cmd' = command
    /\ args' = [fnames |-> fnames, name |-> name]
    /\ pwd' = d
    /\ stateArg' = state
    /\ phase' = "done"
    /\ UNCHANGED <<remote, root>>

\* the invocation of a command without the arguments of the command
Invoke(command, d, state, nfail) == InvokeWith(command, d, state, nfail, {}, None)

\* the process ends: its objects are gone, the filesystem stays
Exit ==
    /\ phase = "done"
    /\ phase' = "idle"
    /\ cmd' = None
    /\ args' = NoArgs
    /\ pwd' = <<>>
    /\ stateArg' = NoPath
    /\ cfg' = NoPath
    /\ built' = NoTree
    /\ scope' = NoTree
    /\ tree' = NoTree
    /\ log' = <<>>
    /\ err' = "none"
    /\ UNCHANGED <<remote, root, files, repos, work>>

\* a working tree is deleted by something else than the program
DeleteRepo ==
    /\ phase = "idle"
    /\ \E r \in repos :
          /\ repos' = repos \ {r}
          /\ work' = [q \in DOMAIN work \ {r} |-> work[q]]
    /\ UNCHANGED <<remote, root, files, phase, cmd, args, pwd, stateArg, cfg, built, scope, tree, log, err>>

\* the directory p, below the directory from, after from is renamed to
Moved(p, from, to) == to \o RelativeTo(p, from)

\* the directory that was cloned into is renamed, with all it holds
Relocate ==
    /\ phase = "idle"
    /\ files # {}
    /\ root \in Roots
    /\ root' = Elsewhere
    /\ files' = {[dir |-> Moved(f.dir, root, Elsewhere), tree |-> f.tree] : f \in files}
    /\ repos' = {Moved(r, root, Elsewhere) : r \in repos}
    /\ work' = [q \in {Moved(r, root, Elsewhere) : r \in DOMAIN work} |-> work[Moved(q, Elsewhere, root)]]
    /\ UNCHANGED <<remote, phase, cmd, args, pwd, stateArg, cfg, built, scope, tree, log, err>>

\* a state file is overwritten by something else than the program
Corrupt ==
    /\ phase = "idle"
    /\ \E f \in files :
          /\ f.tree # Garbage
          /\ files' = (files \ {f}) \cup {[dir |-> f.dir, tree |-> Garbage]}
    /\ UNCHANGED <<remote, root, repos, work, phase, cmd, args, pwd, stateArg, cfg, built, scope, tree, log, err>>

\* the directories an invocation is started from: the root and a directory
\* outside of it and, when a state file exists, the directories of the
\* hierarchy and a directory below a project
Outside == Parent(root)
FirstRepo == CHOOSE r \in repos : \A q \in repos \ {r} : StrLess(PathStr(r), PathStr(q))
PwdChoices ==
    {root, Outside} \cup
    IF files = {} \/ repos = {} THEN {}
    ELSE UNION { {SubSeq(r, 1, k) : k \in Len(root)..Len(r)} : r \in repos }
         \cup {FirstRepo \o <<<<"x">>>>}
\* the --state arguments: none, a file that does not exist, a state file
StateChoices(d) ==
    IF d = Outside
    THEN {NoPath, <<<<"x">>>>} \cup {f.dir \o <<GROUP_FNAME>> : f \in files}
    ELSE {NoPath}
\* the operations of a dispatch that the backend can make fail: 0 for none,
\* k for the k-th operation of the dispatch
FailChoices == 0..RemoteProjects(remote)

CloneNested == \E nfail \in FailChoices, srv \in Servers(remote) : Clone(FALSE, nfail, srv)
CloneFlat == \E nfail \in FailChoices, srv \in Servers(remote) : Clone(TRUE, nfail, srv)
Command ==
    \E command \in (Commands \ {"clone"}), d \in PwdChoices :
        \E state \in StateChoices(d) :
            \E nfail \in FailChoices : Invoke(command, d, state, nfail)
BadCommand ==
    \E command \in OtherAttrs \cup Unknown, d \in PwdChoices :
        \E state \in StateChoices(d) : Invoke(command, d, state, 0)

Next == CloneNested \/ CloneFlat \/ Command \/ BadCommand \/ Exit

Spec == Init /\ [][Next]_vars

(***************************************************************************)
(* The state file and the working trees between two invocations: a clone,  *)
(* what happens to the directories afterwards, and `status`, which loads   *)
(* the state file as every command but clone does.                         *)
(***************************************************************************)
\* cli.status from any directory, with any --state
Status ==
    \E d \in PwdChoices :
        \E state \in StateChoices(d) : Invoke("status", d, state, 0)

NextLoad ==
    \/ CloneNested \/ CloneFlat \/ Status \/ Exit
    \/ DeleteRepo \/ Relocate \/ Corrupt

InitLoad ==
    /\ remote \in LoadRemotes
    /\ root \in Roots
    /\ files = {}
    /\ repos = {}
    /\ work = NoWork
    /\ Idle

SpecLoad == InitLoad /\ [][NextLoad]_vars

(***************************************************************************)
(* The construction of the tree alone.                                     *)
(***************************************************************************)
InitBuild ==
    /\ remote \in Remotes
    /\ root \in Roots
    /\ files = {}
    /\ repos = {}
    /\ work = NoWork
    /\ Idle

\* GitlabGroup(name=, fullname=, root=, flat=) on the server srv: the object,
\* or the error of the server
Build(flat, srv) ==
    /\ phase = "idle"
    /\ built = NoTree
    /\ err = "none"
    /\ built' = TopGroup(remote, root, flat, srv)
    /\ err' = IF built' = NoTree THEN "GitlabGetError" ELSE "none"
    /\ UNCHANGED <<remote, root, files, repos, work, phase, cmd, args, pwd, stateArg, cfg, scope, tree, log>>

\* GitlabGroup(...) as `clone` constructs it, in the nested layout
BuildNested == \E srv \in Servers(remote) : Build(FALSE, srv)

\* GitlabGroup(...) as `clone --flat` constructs it
BuildFlat == \E srv \in Servers(remote) : Build(TRUE, srv)

NextBuild == BuildNested \/ BuildFlat

SpecBuild == InitBuild /\ [][NextBuild]_vars

\* the construction for the hierarchies of PrefixRemotes
InitPrefix ==
    /\ remote \in PrefixRemotes
    /\ root \in Roots
    /\ files = {}
    /\ repos = {}
    /\ work = NoWork
    /\ Idle

SpecPrefix == InitPrefix /\ [][NextBuild]_vars

(***************************************************************************)
(* The objects used without the command line: a GitlabGroup is constructed *)
(* and recursive_command is called on it.                                  *)
(***************************************************************************)
\* the fnames of add: none, or a file in every project of the group
FnameChoices(g) == { {}, {ProjectPath(Projects(g)[i]) \o << <<"x">> >> : i \in DOMAIN Projects(g)} }

\* group.recursive_command(command, **kwargs) on the group that was constructed
Run ==
    /\ phase = "idle"
    /\ built # NoTree
    /\ \E command \in Commands, nfail \in FailChoices :
          \E fnames \in FnameChoices(built) :
              /\ DispatchWith(built, command, nfail, fnames)
              /\ cmd' = command
              /\ args' = [fnames |-> fnames, name |-> None]
    /\ scope' = built
    /\ pwd' = root
    /\ phase' = "done"
    /\ UNCHANGED <<remote, root, stateArg, cfg, built>>

NextApi == BuildNested \/ BuildFlat \/ Run \/ Exit

SpecApi == Init /\ [][NextApi]_vars

(***************************************************************************)
(* The commands on a hierarchy that was cloned, the contents of its        *)
(* working trees being known: every working tree has the branch main and   *)
(* the committed file x; the user may have edited x and created y.         *)
(***************************************************************************)
FileX == << <<"x">> >>
FileY == << <<"y">> >>
\* a name that no file has
FileZ == << <<"z">> >>
BranchNames == {"main", "test"}
\* the name given to branch
NewBranch == "test"

\* the contents of a working tree after the clone and the user's edits
FreshRepos ==
    {[heads |-> [n \in {"main"} |-> 0], active |-> "main", tracked |-> {FileX},
      untracked |-> u, modified |-> m, staged |-> {}] : u \in SUBSET {FileY}, m \in SUBSET {FileX}}

GitRemotes == {g \in TreeRemotes : RemoteSize(g) <= MaxGitNodes + 1}

\* cli.clone on a server that answers, on an empty root, no operation failing
Cloned(flat) ==
    LET srv == CHOOSE x \in Servers(remote) : x.down = {} /\ x.ord = "asc"
    IN recursive_command(TopGroup(remote, root, flat, srv), "clone",
                         [files |-> {}, repos |-> {}, work |-> NoWork, log |-> <<>>, err |-> "none",
                          nfail |-> 0, fnames |-> {}, name |-> None])

StageRemotes == {g \in TreeRemotes : RemoteSize(g) <= MaxStageNodes + 1}

\* the hierarchy, one of R, is cloned and its working trees have contents of
\* the set W
InitGit(R, W) ==
    /\ remote \in R
    /\ root \in Roots
    /\ \E flat \in BOOLEAN :
          /\ files = Cloned(flat).st.files
          /\ repos = Cloned(flat).st.repos
    /\ work \in [repos -> W]
    /\ Idle

\* the directories of the hierarchy: the root, the groups and the projects
GitDirs == {root} \cup UNION { {SubSeq(r, 1, k) : k \in Len(root)..Len(r)} : r \in repos }

\* pathlib.Path(fname).resolve() in the working directory d
resolve(d, fname) == d \o fname

\* the fnames of add in the directory d, relative to d: none, x or z in one
\* working tree below d, x in every working tree below d, x and y in every
\* working tree below d
AddChoices(d) ==
    LET below == {q \in repos : IsPrefix(d, q)}
        names(F) == {RelativeTo(r \o f, d) : r \in below, f \in F}
    IN {{}, names({FileX}), names({FileX, FileY})} \cup {{n} : n \in names({FileX, FileZ})}

\* cli.branch
Branch == \E d \in GitDirs : InvokeWith("branch", d, NoPath, 0, {}, NewBranch)

\* cli.checkout
Checkout == \E d \in GitDirs, name \in BranchNames : InvokeWith("checkout", d, NoPath, 0, {}, name)

\* cli.add
Add ==
    \E d \in GitDirs :
        \E S \in AddChoices(d) : InvokeWith("add", d, NoPath, 0, {resolve(d, f) : f \in S}, None)

\* cli.commit
Commit == \E d \in GitDirs : InvokeWith("commit", d, NoPath, 0, {}, None)

\* branch and checkout on working trees without edits
InitBranch == InitGit(GitRemotes, {w \in FreshRepos : w.untracked = {} /\ w.modified = {}})

NextBranch == Branch \/ Checkout \/ Exit

SpecBranch == InitBranch /\ [][NextBranch]_vars

\* add and commit on working trees with edits
InitStage == InitGit(StageRemotes, FreshRepos)

NextStage == Add \/ Commit \/ Exit

SpecStage == InitStage /\ [][NextStage]_vars

(***************************************************************************)
(* The visualisations `viz table` and `viz access` of a tree.  A row of    *)
(* the table is the row of a project, which its fullname stands for; a row *)
(* of the access list is [node, path, id]: id the member, path the first   *)
(* column, node the place in the walk of the node that the row was made    *)
(* for (which the program does not keep).                                  *)
(***************************************************************************)
\* the members of a node on the server, as members_all.list gives them
MemberLists == {<<>>, <<"u">>, <<"v">>, <<"u", "v">>}
\* maxdepth: None, or a depth
NoDepth == <<>>
Depths == {NoDepth, <<0>>, <<1>>}
\* the empty first column of a row
NoColumn == <<>>

VizRemotes == {g \in TreeRemotes : RemoteSize(g) <= MaxVizNodes + 1}

RECURSIVE NodeCount(_), NodeCountAll(_)
\* the groups and projects of a tree
NodeCount(g) == 1 + Len(g.projects) + NodeCountAll(g.subgroups)
NodeCountAll(gs) == IF gs = <<>> THEN 0 ELSE NodeCount(Head(gs)) + NodeCountAll(Tail(gs))

RECURSIVE WithMembers(_, _, _)
\* the tree g with the members mem[k], mem[k + 1], ... of its nodes, a group
\* coming before its projects and these before its sub-groups; idx is the
\* place of the node
WithMembers(g, mem, k) ==
    LET first == k + Len(g.projects) + 1
        at(i) == first + NodeCountAll(SubSeq(g.subgroups, 1, i - 1))
    IN [kind |-> "group", fullname |-> g.fullname, path |-> GroupPath(g), idx |-> k, members |-> mem[k],
        projects |-> [i \in DOMAIN g.projects |->
                        [kind |-> "project", fullname |-> g.projects[i].fullname,
                         path |-> ProjectPath(g.projects[i]), idx |-> k + i, members |-> mem[k + i]]],
        subgroups |-> [i \in DOMAIN g.subgroups |-> WithMembers(g.subgroups[i], mem, at(i))]]

RECURSIVE build_table(_, _, _, _), TableSubgroups(_, _, _, _, _)
\* visualise.build_table: rows after the call, rows being the list that was
\* passed (the call appends to it and returns it)
build_table(group, rows, depth, maxdepth) ==
    IF maxdepth = NoDepth \/ depth <= maxdepth[1]
    THEN TableSubgroups(group, 1,
                        rows \o [i \in DOMAIN group.projects |-> group.projects[i].fullname],
                        depth, maxdepth)
    ELSE rows
\* `for grp in group.subgroups: rows.extend(build_table(grp, rows, ...))` from
\* the i-th sub-group on: what the call returns is rows itself
TableSubgroups(group, i, rows, depth, maxdepth) ==
    IF i > Len(group.subgroups) THEN rows
    ELSE LET returned == build_table(group.subgroups[i], rows, depth + 1, maxdepth)
         IN TableSubgroups(group, i + 1, returned \o returned, depth, maxdepth)

RECURSIVE build_access(_, _, _, _, _, _, _), AccessChildren(_, _, _, _, _, _, _)
\* build_access listing every member, seen before or not
build_access_all(group, rows, depth, unique_ids, explicit, top, maxdepth) ==
    LET members == group.members
        new == [i \in DOMAIN members |->
                  [node |-> group.idx,
                   path |-> IF i = 1 THEN PathStr(RelativeTo(group.path, Parent(top))) ELSE NoColumn,
                   id |-> members[i]]]
        here == [rows |-> rows \o new, unique_ids |-> unique_ids \o members]
    IN IF group.kind = "group" /\ (maxdepth = NoDepth \/ depth < maxdepth[1])
       THEN AccessChildren(group.projects \o group.subgroups, here, depth, explicit, top, maxdepth, 1)
       ELSE here

\* visualise.build_access: [rows, unique_ids] after the call
build_access(group, rows, depth, unique_ids, explicit, top, maxdepth) ==
    LET shown(m) == (\A k \in DOMAIN unique_ids : unique_ids[k] # m) \/ explicit
        members == SelectSeq(group.members, shown)
        new == [i \in DOMAIN members |->
                  [node |-> group.idx,
                   path |-> IF i = 1 THEN PathStr(RelativeTo(group.path, Parent(top))) ELSE NoColumn,
                   id |-> members[i]]]
        here == [rows |-> rows \o new, unique_ids |-> unique_ids \o members]
    IN IF group.kind = "group" /\ (maxdepth = NoDepth \/ depth < maxdepth[1])
       THEN AccessChildren(group.projects \o group.subgroups, here, depth, explicit, top, maxdepth, 1)
       ELSE here
\* the loops over the projects and over the sub-groups, from the i-th on
AccessChildren(children, acc, depth, explicit, top, maxdepth, i) ==
    IF i > Len(children) THEN acc
    ELSE AccessChildren(children,
                        build_access(children[i], acc.rows, depth + 1, acc.unique_ids, explicit, top, maxdepth),
                        depth, explicit, top, maxdepth, i + 1)

InitViz ==
    /\ remote \in VizRemotes
    /\ root \in Roots
    /\ files = {}
    /\ repos = {}
    /\ work = NoWork
    /\ Idle

\* `viz`, the tree being the one that was built
Viz(viz_type, explicit, maxdepth, shown, rows) ==
    /\ phase = "idle"
    /\ phase' = "done"
    /\ cmd' = viz_type
    /\ args' = [explicit |-> explicit, maxdepth |-> maxdepth]
    /\ pwd' = root
    /\ scope' = built
    /\ tree' = shown
    /\ log' = rows
    /\ UNCHANGED <<remote, root, files, repos, work, stateArg, cfg, built, err>>

\* visualise.table
Table ==
    /\ built # NoTree
    /\ \E maxdepth \in Depths : Viz("table", FALSE, maxdepth, built, build_table(built, <<>>, 0, maxdepth))

\* visualise.access, the nodes having the members mem on the server
Access ==
    /\ built # NoTree
    /\ \E maxdepth \in Depths, explicit \in BOOLEAN :
          \E mem \in [1..NodeCount(built) -> MemberLists] :
              LET group == WithMembers(built, mem, 1)
              IN Viz("access", explicit, maxdepth, group,
                     build_access(group, <<>>, 0, <<>>, explicit, group.path, maxdepth).rows)

NextViz == BuildNested \/ BuildFlat \/ Table \/ Access \/ Exit

SpecViz == InitViz /\ [][NextViz]_vars

(***************************************************************************)
(* Properties.                                                             *)
(***************************************************************************)
RECURSIVE JoinDash(_)
\* the segments of a chain joined with "-"
JoinDash(c) ==
    IF c = <<>> THEN <<>>
    ELSE IF Len(c) = 1 THEN c[1]
    ELSE c[1] \o <<DASH>> \o JoinDash(Tail(c))

\* the directory of the node whose remote chain (the slugs from the top group
\* down to the node) is c
LayoutPath(c, r, flat) == IF flat THEN r \o <<JoinDash(c)>> ELSE r \o c

RECURSIVE LayoutOK(_, _, _)
\* the group object g and everything below it lie where the remote group rg,
\* of chain c, puts them
LayoutOK(g, rg, c) ==
    /\ GroupPath(g) = LayoutPath(c, g.root, g.flat)
    /\ Len(g.projects) = Cardinality(rg.projects)
    /\ {g.projects[i].project : i \in DOMAIN g.projects} = rg.projects
    /\ \A i \in DOMAIN g.projects :
          ProjectPath(g.projects[i]) = LayoutPath(Append(c, g.projects[i].project), g.root, g.flat)
    /\ Len(g.subgroups) = Len(rg.subgroups)
    /\ \A i \in DOMAIN g.subgroups :
          LayoutOK(g.subgroups[i], rg.subgroups[i], Append(c, rg.subgroups[i].path))

\* Scenario A: G{p1, p2, S{p3}} with G = g, p1 = a, p2 = b, S = a-b, p3 = a
ScenarioA ==
    [path |-> <<"g">>, projects |-> {<<"a">>, <<"b">>},
     subgroups |-> << [path |-> <<"a", "-", "b">>, projects |-> {<<"a">>}, subgroups |-> <<>>] >>]

PathSet(seq) == {NodePath(seq[i]) : i \in DOMAIN seq}

ScenarioAPaths(flat) ==
    IF flat
    THEN { root \o << <<"g", "-", "a">> >>, root \o << <<"g", "-", "b">> >>,
           root \o << <<"g", "-", "a", "-", "b", "-", "a">> >> }
    ELSE { root \o << <<"g">>, <<"a">> >>, root \o << <<"g">>, <<"b">> >>,
           root \o << <<"g">>, <<"a", "-", "b">>, <<"a">> >> }

\* C1: every group and project of a built tree lies at root / chain in the
\* nested layout and at root / (chain joined with "-") in the flat layout;
\* Scenario A gives R/G/p1, R/G/p2, R/G/S/p3 nested and R/G-p1, R/G-p2,
\* R/G-S-p3 flat.
C1_PathLayout ==
    built # NoTree =>
        /\ LayoutOK(built, remote, <<remote.path>>)
        /\ remote = ScenarioA => PathSet(Projects(built)) = ScenarioAPaths(built.flat)

C1_Witness ==
    /\ built # NoTree
    /\ built.flat
    /\ remote = ScenarioA
    /\ PathSet(Projects(built)) = ScenarioAPaths(TRUE)

\* C2: no two distinct nodes of a built tree have the same localPath, in the
\* nested and in the flat layout.
C2_UniquePaths ==
    built # NoTree =>
        \A i, j \in DOMAIN Nodes(built) :
            i # j => NodePath(Nodes(built)[i]) # NodePath(Nodes(built)[j])

\* the events of the log of kind ev, as the set of their positions
Events(ev) == {k \in DOMAIN log : log[k].ev = ev}
\* the positions of the log at which the command ran, or failed, on the project p
Visits(p) == {k \in DOMAIN log : log[k].ev \in {"op", "fail"} /\ log[k].path = ProjectPath(p)}
\* an invocation has ended that ran a dispatch on a group
Dispatched == phase = "done" /\ scope # NoTree /\ scope.kind = "group"
\* an invocation has ended that loaded the state file
Loaded == phase = "done" /\ cmd # "clone" /\ built # NoTree

\* is the project p of the saved object bound to a working tree?
Bound(p) == p.git # NoPath

\* C3: loading a state file from where the dispatch wrote it gives a tree
\* with the localPath values of the saved tree, and the projects that were
\* Bound when it was saved are Bound.
C3_RoundTrip ==
    [][ (phase = "idle" /\ cfg' # NoPath /\ ReadFile(cfg', files) # Garbage) =>
            LET saved == ReadFile(cfg', files)
            IN /\ built' # NoTree
               /\ PathSet(Nodes(built')) = PathSet(Nodes(saved))
               /\ \A i \in DOMAIN Projects(saved) :
                     Bound(Projects(saved)[i]) =>
                         /\ Bound(Projects(built')[i])
                         /\ Projects(built')[i].git \in repos ]_vars

\* the sub-groups of a tree, the top group excluded, whose directory is d
SubgroupsAt(t, d) == {i \in 2..Len(Groups(t)) : GroupPath(Groups(t)[i]) = d}

\* C4: after a nested clone, a command run from the directory of a sub-group
\* runs on exactly the projects of the subtree of that sub-group.
C4_SubtreeScoping ==
    (Loaded /\ ~built.flat /\ cmd \in Commands /\ Events("fail") = {}) =>
        \A i \in SubgroupsAt(built, pwd) :
            /\ {log[k].path : k \in Events("op")} = PathSet(Projects(Groups(built)[i]))
            /\ Cardinality(Events("op")) = Len(Projects(Groups(built)[i]))

\* C5: find_subgroup returns the node whose localPath is the working
\* directory whenever the tree has such a node.
C5_LocateFinds ==
    (Loaded /\ \E i \in DOMAIN Nodes(built) : NodePath(Nodes(built)[i]) = pwd) =>
        NodePath(scope) = pwd

\* C6: find_subgroup returns the top of the tree when the working directory
\* is the localPath of no node.
C6_LocateDefault ==
    (Loaded /\ \A i \in DOMAIN Nodes(built) : NodePath(Nodes(built)[i]) # pwd) =>
        scope = built

\* C7: a dispatch of a command in which no operation fails runs the
\* operation on every project of the tree exactly once.
C7_TraversalComplete ==
    (Dispatched /\ cmd \in Commands /\ Events("fail") = {}) =>
        /\ \A i \in DOMAIN Projects(scope) : Cardinality(Visits(Projects(scope)[i])) = 1
        /\ Cardinality(Events("op")) = Len(Projects(scope))

\* C8: when the operation fails on a project, it is still run on every
\* project that comes later in the walk, and the state file is written at
\* the end of the dispatch.
C8_Isolation ==
    Dispatched =>
        \A i \in DOMAIN Projects(scope) :
            (\E k \in Visits(Projects(scope)[i]) : log[k].ev = "fail") =>
                /\ \A j \in DOMAIN Projects(scope) : j > i => Visits(Projects(scope)[j]) # {}
                /\ log[Len(log)].ev = "write"

\* C9: a dispatch of a name that is no command raises "not recognised" and
\* runs no project operation, whatever the tree.
C9_UnknownCommand ==
    (Dispatched /\ cmd \notin Commands) =>
        /\ err = "NotRecognised"
        /\ Events("op") = {}

\* C10: an invocation writes the state file exactly once, at the end, from
\* the dispatch on the top of the tree it runs on.
C10_SingleWrite ==
    (Dispatched /\ err = "none") =>
        /\ Cardinality(Events("write")) = 1
        /\ log[Len(log)].ev = "write"
        /\ log[Len(log)].node = scope.fullname

\* an invocation of a command that loads the state starts
Loads == phase = "idle" /\ phase' = "done" /\ cmd' # "clone"
\* nothing was loaded and nothing was run or written
NothingDone ==
    /\ built' = NoTree
    /\ scope' = NoTree
    /\ log' = <<>>
    /\ UNCHANGED <<files, repos>>

\* C11: a load without --state when neither the working directory nor any
\* of its ancestors holds a state file raises the FileNotFoundError of the
\* walk; a load with a --state that names no file raises the other
\* FileNotFoundError, that of the provided path; either way no tree is
\* returned and no project operation is run.
C11_ConfigNotFound ==
    [][ Loads =>
          /\ (/\ stateArg' = NoPath
              /\ \A k \in 0..Len(pwd') : ~IsFile(SubSeq(pwd', 1, k) \o <<GROUP_FNAME>>, files))
                 => (err' = "FileNotFoundError:walk" /\ NothingDone)
          /\ (stateArg' # NoPath /\ ~IsFile(stateArg', files))
                 => (err' = "FileNotFoundError:path" /\ NothingDone) ]_vars

C11_Witness ==
    /\ phase = "done"
    /\ stateArg # NoPath
    /\ files # {}
    /\ err = "FileNotFoundError:path"
    /\ built = NoTree

\* C12: a load of a state file returns the tree also when the working tree
\* of some of its projects is missing; the projects whose working tree is
\* there are bound to it.
C12_StaleLoad ==
    [][ (Loads /\ cfg' # NoPath /\ ReadFile(cfg', files) # Garbage) =>
          /\ err' # "NoSuchPathError"
          /\ built' # NoTree
          /\ \A i \in DOMAIN Projects(built') :
                ProjectPath(Projects(built')[i]) \in repos
                    => Projects(built')[i].git = ProjectPath(Projects(built')[i]) ]_vars

\* C13: after a clone that succeeded there is one state file, GROUP_FNAME
\* in root / <top group> in the nested layout and in root in the flat one.
C13_StateFilePlace ==
    (phase = "done" /\ cmd = "clone" /\ err = "none") =>
        {f.dir \o <<GROUP_FNAME>> : f \in files} =
            {IF built.flat THEN root \o <<GROUP_FNAME>>
                           ELSE root \o <<remote.path, GROUP_FNAME>>}

C13_Witness ==
    /\ phase = "done"
    /\ cmd = "clone"
    /\ err = "none"
    /\ ~built.flat
    /\ built.subgroups # <<>>
    /\ IsFile(root \o <<remote.path, GROUP_FNAME>>, files)

\* the place below the directory to of what the saved node n had below its root
Rebased(n, to) == to \o RelativeTo(NodePath(n), n.root)

\* C14: when the directory that was cloned into has been renamed, a load
\* of the state file gives a tree whose root is the new directory, every
\* node lying below it where it lay below the old one, and all nodes have
\* that root.
C14_Relocation ==
    [][ (/\ Loads
         /\ root = Elsewhere
         /\ cfg' # NoPath
         /\ ReadFile(cfg', files) # Garbage
         /\ \A i \in DOMAIN Projects(ReadFile(cfg', files)) :
                Rebased(Projects(ReadFile(cfg', files))[i], root) \in repos) =>
            LET saved == ReadFile(cfg', files)
            IN /\ built' # NoTree
               /\ Len(Nodes(built')) = Len(Nodes(saved))
               /\ \A i \in DOMAIN Nodes(built') :
                     /\ Nodes(built')[i].root = root
                     /\ NodePath(Nodes(built')[i]) = Rebased(Nodes(saved)[i], root) ]_vars

\* C15: no project of a tree that a state file holds has a git handle or
\* display rows.
C15_NoTransients ==
    \A f \in files :
        f.tree # Garbage =>
            \A i \in DOMAIN Projects(f.tree) :
                /\ Projects(f.tree)[i].git = NoPath
                /\ Projects(f.tree)[i].rows = <<>>

\* the errors of a state file that is not there
NotFound == {"FileNotFoundError:walk", "FileNotFoundError:path"}
\* the error of a state file that is no pickle
CorruptError == "UnpicklingError"

\* C16: a load ends with a not-found error when there is no state file,
\* with another error, that of pickle, when the file is there and is no
\* pickle of a tree, and with neither of the two when the file is a pickle
\* of a tree, whether or not the working trees of its projects are there.
C16_FailureModes ==
    [][ Loads =>
          /\ cfg' = NoPath => err' \in NotFound
          /\ (cfg' # NoPath /\ ReadFile(cfg', files) = Garbage)
                => (err' = CorruptError /\ err' \notin NotFound)
          /\ (cfg' # NoPath /\ ReadFile(cfg', files) # Garbage)
                => err' \notin NotFound \cup {CorruptError} ]_vars

C16_Witness ==
    /\ phase = "done"
    /\ cfg # NoPath
    /\ ReadFile(cfg, files) = Garbage
    /\ repos # {}
    /\ err = CorruptError

\* the operation ran to its end on the project p, or raised
Ran(p) == \E k \in Events("op") : log[k].path = ProjectPath(p)
Raised(p) == \E k \in Events("fail") : log[k].path = ProjectPath(p)

\* C17: a project that is not Bound becomes Bound when clone succeeds on it
\* and stays not Bound when clone fails; any other command raises on a
\* project that is not Bound and leaves its state as it was.
C17_CloneStateMachine ==
    (Dispatched /\ cmd \in Commands) =>
        \A i \in DOMAIN Projects(scope) :
            LET before == Projects(scope)[i]
                after == Projects(tree)[i]
            IN ~Bound(before) =>
                 /\ (cmd = "clone" /\ Ran(before)) => (Bound(after) /\ after.git \in repos)
                 /\ (cmd = "clone" /\ Raised(before)) => ~Bound(after)
                 /\ cmd # "clone" => (~Ran(before) /\ after.git = before.git)

IsVisit(e) == e.ev \in {"op", "fail"}
IsRow(e) == e.ev = "row"
\* the place of the project of directory d in the pre-order of the tree t:
\* the projects of a group, in their order, before those of its sub-groups,
\* the sub-groups in their order
PreOrderIndex(t, d) == CHOOSE i \in DOMAIN Projects(t) : ProjectPath(Projects(t)[i]) = d

Mapping(t) == {<<Nodes(t)[i].fullname, NodePath(Nodes(t)[i])>> : i \in DOMAIN Nodes(t)}
\* the slugs of the projects of each group of a tree, group by group
ProjectSeqs(t) ==
    [i \in DOMAIN Groups(t) |->
        [j \in DOMAIN Groups(t)[i].projects |-> Groups(t)[i].projects[j].project]]

\* C19: whatever order the server lists the projects in, the construction
\* gives the same fullname -> localPath mapping and the same sequence of
\* projects under each group, ascending by the path of the project.
C19_Deterministic ==
    built # NoTree =>
        /\ \A o \in Orders :
              LET again == TopGroup(remote, root, built.flat, [ord |-> o, down |-> {}])
              IN /\ Mapping(again) = Mapping(built)
                 /\ ProjectSeqs(again) = ProjectSeqs(built)
        /\ \A i \in DOMAIN Groups(built) :
              \A j, k \in DOMAIN Groups(built)[i].projects :
                  j < k => StrLess(Groups(built)[i].projects[j].project,
                                   Groups(built)[i].projects[k].project)

C19_Witness ==
    /\ built # NoTree
    /\ Len(built.projects) = 3
    /\ ProjectSeqs(built)[1] = << <<"a">>, <<"a", "-", "b">>, <<"b">> >>

\* C20: a construction either raises the error of the server and gives no
\* object, or gives the object of the whole hierarchy, every group and
\* every project of it; either way no file is written and nothing is cloned.
C20_NoPartialTree ==
    [][ (phase = "idle" /\ built = NoTree /\ err = "none" /\ phase' = "idle"
            /\ (built' # NoTree \/ err' # "none")) =>
          /\ err' = "GitlabGetError" <=> built' = NoTree
          /\ built' # NoTree =>
                /\ Len(Projects(built')) = RemoteProjects(remote)
                /\ Len(Groups(built')) = RemoteSize(remote) - RemoteProjects(remote)
          /\ UNCHANGED <<files, repos>> ]_vars

C20_Witness ==
    /\ phase = "idle"
    /\ built = NoTree
    /\ err = "GitlabGetError"
    /\ remote.subgroups # <<>>
    /\ files = {}
    /\ repos = {}

RECURSIVE PrefixedOnce(_, _, _)
\* in the flat layout, the projects of the group g, of remote group rg and
\* chain c, and of the groups below it lie at root / (prefix - slug), prefix
\* being the flat name of g, but at root / slug when the slug starts with
\* that prefix already
PrefixedOnce(g, rg, c) ==
    LET prefix == JoinDash(c) \o <<DASH>>
    IN /\ \A i \in DOMAIN g.projects :
             LET slug == g.projects[i].project
             IN ProjectPath(g.projects[i]) =
                    g.root \o << IF IsPrefix(prefix, slug) THEN slug ELSE prefix \o slug >>
       /\ \A i \in DOMAIN g.subgroups :
             PrefixedOnce(g.subgroups[i], rg.subgroups[i], Append(c, rg.subgroups[i].path))

\* C21: in the flat layout the flat name of the parent is put before the
\* slug of a project once, and not at all when the slug starts with it: the
\* project G-p1 of the group G lies at root/G-p1.
C21_NoDoublePrefix ==
    (built # NoTree /\ built.flat) => PrefixedOnce(built, remote, <<remote.path>>)

\* the working trees of the projects of the tree that the command was
\* dispatched on
ScopePaths(t) == {ProjectPath(Projects(t)[i]) : i \in DOMAIN Projects(t)}

\* a command is dispatched on a group of projects whose working trees exist
DispatchOf(command) ==
    /\ phase = "idle"
    /\ phase' = "done"
    /\ cmd' = command
    /\ scope'.kind = "group"
    /\ ScopePaths(scope') \subseteq DOMAIN work

\* C22: when `branch test` is dispatched on cloned projects none of which has
\* the branch test, afterwards every project in scope has the branch test
\* and the branches it had, and its active branch is the one it was.
C22_BranchCreated ==
    [][ (DispatchOf("branch") /\ \A q \in ScopePaths(scope') : NewBranch \notin DOMAIN work[q].heads) =>
            \A q \in ScopePaths(scope') :
                /\ NewBranch \in DOMAIN work'[q].heads
                /\ DOMAIN work[q].heads \subseteq DOMAIN work'[q].heads
                /\ work'[q].active = work[q].active ]_vars

\* branch has created test in the two projects of a group and of its
\* sub-group, main is still checked out
C22_Witness ==
    /\ phase = "done"
    /\ cmd = "branch"
    /\ err = "none"
    /\ scope.kind = "group"
    /\ Len(scope.projects) = 1
    /\ Len(scope.subgroups) = 1
    /\ Cardinality(ScopePaths(scope)) = 2
    /\ \A q \in ScopePaths(scope) :
          /\ DOMAIN work[q].heads = {"main", NewBranch}
          /\ work[q].active = "main"
          /\ work[q].heads[NewBranch] = work[q].heads["main"]

\* C23: when `checkout name` is dispatched on cloned projects that all have
\* the branch name, afterwards name is the active branch of every project in
\* scope and every project has the branches it had.
C23_CheckedOut ==
    [][ (DispatchOf("checkout") /\ \A q \in ScopePaths(scope') : args'.name \in DOMAIN work[q].heads) =>
            \A q \in ScopePaths(scope') :
                /\ work'[q].active = args'.name
                /\ DOMAIN work'[q].heads = DOMAIN work[q].heads ]_vars

\* checkout has made test the active branch of the two projects of a group
\* and of its sub-group, which have the branches main and test
C23_Witness ==
    /\ phase = "done"
    /\ cmd = "checkout"
    /\ args.name = NewBranch
    /\ err = "none"
    /\ scope.kind = "group"
    /\ Len(scope.projects) = 1
    /\ Len(scope.subgroups) = 1
    /\ Cardinality(ScopePaths(scope)) = 2
    /\ \A q \in ScopePaths(scope) :
          /\ DOMAIN work[q].heads = {"main", NewBranch}
          /\ work[q].active = NewBranch

\* the files named by the arguments of add in the working tree q
Named(q) == {RelativeTo(f, q) : f \in {f \in args'.fnames : IsPrefix(q, f)}}

\* C24: `add` stages in every project in scope exactly the named files that
\* lie in the project and are untracked or modified there: a file that is
\* not named and a name that no file has are not staged, no file is staged
\* in a project that does not contain it, and the command succeeds.
C24_AddStages ==
    [][ DispatchOf("add") =>
            /\ err' = "none"
            /\ \A q \in ScopePaths(scope') :
                  /\ work'[q].staged = work[q].staged \cup (Named(q) \cap (work[q].untracked \cup work[q].modified))
                  /\ work'[q].untracked = work[q].untracked \ Named(q)
                  /\ work'[q].modified = work[q].modified \ Named(q)
            /\ \A q \in DOMAIN work : work'[q].staged \ work[q].staged \subseteq Named(q) ]_vars

\* add was given x of one project: x is staged there and y, which was not
\* named, is still untracked; in the other project of the scope, where x is
\* modified too, nothing is staged
C24_Witness ==
    /\ phase = "done"
    /\ cmd = "add"
    /\ err = "none"
    /\ scope.kind = "group"
    /\ \E q, r \in ScopePaths(scope) :
          /\ q # r
          /\ args.fnames = {q \o FileX}
          /\ work[q].staged = {FileX}
          /\ work[q].untracked = {FileY}
          /\ work[r].modified = {FileX}
          /\ work[r].staged = {}

\* the commits of the working tree w, on all its branches
Commits(w) == LET RECURSIVE Sum(_)
                  Sum(S) == IF S = {} THEN 0
                            ELSE LET n == CHOOSE n \in S : TRUE IN w.heads[n] + Sum(S \ {n})
              IN Sum(DOMAIN w.heads)

\* C25: `commit` makes one commit in every project in scope that has staged
\* changes and none in a project that has none; afterwards no project in
\* scope has staged changes, and the command succeeds, also when nothing was
\* staged anywhere.
C25_CommitStaged ==
    [][ DispatchOf("commit") =>
            /\ err' = "none"
            /\ \A q \in ScopePaths(scope') :
                  /\ Commits(work'[q]) = Commits(work[q]) + (IF work[q].staged = {} THEN 0 ELSE 1)
                  /\ work'[q].staged = {} ]_vars

\* commit ran on two projects, of which one had staged changes: it has a
\* commit and the other one has none
C25_Witness ==
    /\ phase = "done"
    /\ cmd = "commit"
    /\ err = "none"
    /\ scope.kind = "group"
    /\ \E q, r \in ScopePaths(scope) :
          /\ Commits(work[q]) = 1
          /\ work[q].tracked = {FileX, FileY}
          /\ Commits(work[r]) = 0
          /\ work[r].staged = {}

RECURSIVE Frame(_)
\* the tree t without the handles and the rows of its projects
Frame(t) ==
    [t EXCEPT !.projects = [i \in DOMAIN t.projects |-> [t.projects[i] EXCEPT !.git = NoPath, !.rows = <<>>]],
              !.subgroups = [i \in DOMAIN t.subgroups |-> Frame(t.subgroups[i])]]

\* C26: a dispatch of a command changes nothing of the nodes of the tree but
\* the handles and the rows of the projects: every node keeps its fullname
\* and its path, and every other field.
C26_Frame ==
    (Dispatched /\ cmd \in Commands /\ scope.kind = "group") => Frame(tree) = Frame(scope)

\* the state files hold the tree of the top-level group that was cloned, with
\* every project of the hierarchy
FullTree(fs) ==
    /\ fs # {}
    /\ \A f \in fs :
          /\ f.tree # Garbage
          /\ f.tree.kind = "group"
          /\ ~f.tree.subgroup
          /\ f.tree.fullname = remote.path
          /\ count(f.tree) = RemoteProjects(remote)

\* C27: when the state file holds the full tree of the top-level group, it
\* still holds it after an invocation, run from the top-level directory or
\* from the directory of a sub-group, whether it ended normally or with an
\* error.
C27_StatePreserved ==
    [][ (phase = "idle" /\ phase' = "done" /\ FullTree(files)) => FullTree(files') ]_vars

\* C28: when a command is invoked in the directory of a project of the tree,
\* the project is what it is dispatched on, and the invocation ends without
\* an error.
C28_ProjectScope ==
    (phase = "done" /\ built # NoTree /\ pwd \in ScopePaths(built)) =>
        /\ scope.kind = "project"
        /\ ProjectPath(scope) = pwd
        /\ err = "none"

\* C29: with no maxdepth build_table returns one row for every project of the
\* tree, in pre-order, and no row twice.
C29_TableRows ==
    (phase = "done" /\ cmd = "table" /\ args.maxdepth = NoDepth) =>
        log = [i \in DOMAIN Projects(scope) |-> Projects(scope)[i].fullname]

RECURSIVE Walk(_, _, _), WalkAll(_, _, _)
\* the nodes that the access list visits, in the order of the walk: the
\* group, its projects, its sub-groups, down to the depth maxdepth
Walk(n, depth, maxdepth) ==
    IF n.kind = "group" /\ (maxdepth = NoDepth \/ depth < maxdepth[1])
    THEN <<n>> \o WalkAll(n.projects \o n.subgroups, depth + 1, maxdepth)
    ELSE <<n>>
WalkAll(ns, depth, maxdepth) ==
    IF ns = <<>> THEN <<>> ELSE Walk(Head(ns), depth, maxdepth) \o WalkAll(Tail(ns), depth, maxdepth)

\* has the node n the member m?
HasMember(n, m) == \E k \in DOMAIN n.members : n.members[k] = m

\* the rows of the access list that were made for the node n
RowsOf(n) == {k \in DOMAIN log : log[k].node = n.idx}

\* C30: without --explicit a member is listed for one node only, the first
\* node of the walk that has this member, and of the rows of a node only the
\* first one carries the path of the node; with --explicit every member of
\* every visited node has a row.
C30_AccessRows ==
    (phase = "done" /\ cmd = "access") =>
        LET walk == Walk(tree, 0, args.maxdepth)
            first(m) == CHOOSE i \in DOMAIN walk :
                            HasMember(walk[i], m) /\ \A j \in 1..(i - 1) : ~HasMember(walk[j], m)
        IN /\ \A k \in DOMAIN log : \E i \in DOMAIN walk : log[k].node = walk[i].idx
           /\ ~args.explicit =>
                 \A i \in DOMAIN walk : \A m \in {"u", "v"} :
                     Cardinality({k \in RowsOf(walk[i]) : log[k].id = m}) =
                         IF HasMember(walk[i], m) /\ first(m) = i THEN 1 ELSE 0
           /\ args.explicit =>
                 \A i \in DOMAIN walk : \A m \in {"u", "v"} :
                     Cardinality({k \in RowsOf(walk[i]) : log[k].id = m}) =
                         IF HasMember(walk[i], m) THEN 1 ELSE 0
           /\ \A k \in DOMAIN log :
                 IF k = 1 \/ log[k - 1].node # log[k].node
                 THEN \E i \in DOMAIN walk :
                         /\ walk[i].idx = log[k].node
                         /\ log[k].path = PathStr(RelativeTo(walk[i].path, Parent(tree.path)))
                 ELSE log[k].path = NoColumn

\* the access list of a group with the members u and v whose project has u
\* and whose sub-group has v and a third node: two rows for the group, the
\* second one without the path, and none for the project and the sub-group
C30_Witness ==
    /\ phase = "done"
    /\ cmd = "access"
    /\ ~args.explicit
    /\ args.maxdepth = NoDepth
    /\ tree.members = <<"u", "v">>
    /\ Len(tree.projects) = 1
    /\ tree.projects[1].members = <<"u">>
    /\ Len(tree.subgroups) = 1
    /\ tree.subgroups[1].members = <<"v">>
    /\ Len(log) = 2
    /\ log[1].path # NoColumn
    /\ log[2].path = NoColumn

====
